---- MODULE Spec2Model ----
(***************************************************************************)
(* grafana-sync: a one-shot CLI that pulls Grafana dashboards,             *)
(* datasources, folders and notification channels into a directory of      *)
(* JSON files, or pushes such a directory to the server.                   *)
(*                                                                         *)
(* The repository holds two programs with the same command line:           *)
(*   impl = "http"  src/main.go            raw HTTP throughout             *)
(*   impl = "sdk"   src/unnamed/part_001   dashboards through the typed    *)
(*                                         grafana-tools/sdk client        *)
(* Both are modelled; impl is fixed for a behaviour.                       *)
(*                                                                         *)
(* The Grafana server and the SDK client are outside the repository.  A    *)
(* response is a nondeterministic choice: a transport failure or a status  *)
(* from Statuses; list bodies are drawn from bounded sets; the server's    *)
(* dashboards are state (remote), changed by an accepted upsert.           *)
(* JSON numbers are taken from the range float64 represents exactly, and   *)
(* -url, when given, is a URL both http.NewRequest and sdk.NewClient take. *)
(* The local directory tree is writable or not (fs.writable) for a whole   *)
(* behaviour.                                                              *)
(***************************************************************************)
EXTENDS Integers, Sequences, FiniteSets, TLC

\* Invocations of the program in one behaviour (a pull followed by a push).
MaxRuns == 2
\* Longest JSON array in a list file or list response.
MaxLen == 2

VARIABLES
    impl,       \* which of the two programs runs
    apiKey,     \* -apikey
    baseURL,    \* -url
    action,     \* -action
    folder,     \* -folder
    runs,       \* invocations started so far
    pc,         \* position of the process
    queue,      \* operations main still has to run, the head being the current one
    folderID,   \* pullDashboards / pushDashboards: the resolved folder ID
    files,      \* pushDashboards: the directory listing
    dashboards, \* pullDashboards: the search hits
    records,    \* pushDatasources / pushFolders / pushNotificationChannels: the decoded array
    idx,        \* index of the running loop
    requests,   \* the requests issued by this invocation, in order
    writes,     \* the file writes attempted by this invocation, in order
    exitCode,   \* -1 while running, else the process's exit code
    fs,         \* the local directory tree under -directory
    remote,     \* the server's dashboards, by UID
    origin      \* the server's dashboards when the behaviour began

config == <<impl, apiKey, baseURL, action, folder, runs>>
locals == <<folderID, files, dashboards, records, idx>>
vars == <<impl, apiKey, baseURL, action, folder, runs, pc, queue, folderID, files,
          dashboards, records, idx, requests, writes, exitCode, fs, remote, origin>>

----------------------------------------------------------------------------
(* Go values held in an interface{}: the dynamic type is part of the value. *)

Nil == [type |-> "nil"]
Str(s) == [type |-> "string", s |-> s]
Float64(n) == [type |-> "float64", n |-> n]
GoInt(n) == [type |-> "int", n |-> n]

(* fmt.Sprintf("%v", x) of a JSON number that is a small whole float64. *)
SprintfV(x) == IF x.type = "float64" THEN ToString(x.n) ELSE "<nil>"

----------------------------------------------------------------------------
(* JSON texts of the list kinds.  An object text is a sequence of          *)
(* <<key, scalar>> members in the order written, keys possibly repeated.   *)

JStr(s) == [json |-> "string", s |-> s]
JNum(n) == [json |-> "number", n |-> n]

Malformed == [kind |-> "malformed"]
Absent == [kind |-> "absent"]
Array(elems) == [kind |-> "array", elems |-> elems]

\* The keys of the model in the byte order json.Marshal sorts map keys by.
KeyOrder == <<"id", "name", "title">>

ObjA == << <<"id", JNum(1)>>, <<"name", JStr("a")>> >>
ObjB == << <<"name", JStr("b")>>, <<"id", JNum(2)>>, <<"name", JStr("c")>> >>

\* Arrays of up to MaxLen objects: ObjA, ObjB, ObjA, ... and ObjB, ObjA, ObjB, ...
AltA(n) == [i \in 1..n |-> IF i % 2 = 1 THEN ObjA ELSE ObjB]
AltB(n) == [i \in 1..n |-> IF i % 2 = 1 THEN ObjB ELSE ObjA]
\* json.Unmarshal of a scalar into interface{}.
DecodeValue(j) == IF j.json = "string" THEN Str(j.s) ELSE Float64(j.n)
\* json.Marshal of such a value.
EncodeValue(v) == IF v.type = "string" THEN JStr(v.s) ELSE JNum(v.n)

LastIndexOf(obj, k) ==
    CHOOSE i \in DOMAIN obj : obj[i][1] = k /\ \A j \in DOMAIN obj : obj[j][1] = k => j <= i

\* The decoding with the first member of a repeated key kept.
UnmarshalObjectFirstWins(obj) ==
    [k \in {obj[i][1] : i \in DOMAIN obj} |->
        DecodeValue(obj[CHOOSE i \in DOMAIN obj :
                            obj[i][1] = k /\ \A j \in DOMAIN obj : obj[j][1] = k => i <= j][2])]

\* json.Unmarshal of an object text into map[string]interface{}: a later member
\* replaces an earlier one of the same key, the order is lost.
UnmarshalObject(obj) ==
    [k \in {obj[i][1] : i \in DOMAIN obj} |-> DecodeValue(obj[LastIndexOf(obj, k)][2])]

\* json.Marshal of a map[string]interface{}: the members sorted by key.
MarshalMap(m) ==
    LET keys == SelectSeq(KeyOrder, LAMBDA k : k \in DOMAIN m)
    IN  [i \in 1..Len(keys) |-> <<keys[i], EncodeValue(m[keys[i]])>>]

\* json.Unmarshal of a file into []map[string]interface{}.
UnmarshalList(content) ==
    IF content.kind = "array"
    THEN [err |-> FALSE,
          value |-> [i \in 1..Len(content.elems) |-> UnmarshalObject(content.elems[i])]]
    ELSE [err |-> TRUE, value |-> << >>]

----------------------------------------------------------------------------
(* Folders, as GET /api/folders lists them. *)

Folder(id, title) == [id |-> id, title |-> title]

FolderLists ==
    { << Folder(7, "Eng"), Folder(9, "Eng") >>,
      << Folder(7, "Ops"), Folder(9, "Eng") >>,
      << Folder(7, "Ops") >> }

FolderNames == {"", "Eng"}

\* The index of the first folder of the list with this title, 0 when there is none.
FirstMatchLast(folders, folderName) ==
    IF \E i \in DOMAIN folders : folders[i].title = folderName
    THEN CHOOSE i \in DOMAIN folders :
            /\ folders[i].title = folderName
            /\ \A j \in DOMAIN folders : folders[j].title = folderName => j <= i
    ELSE 0

FirstMatch(folders, folderName) ==
    IF \E i \in DOMAIN folders : folders[i].title = folderName
    THEN CHOOSE i \in DOMAIN folders :
            /\ folders[i].title = folderName
            /\ \A j \in DOMAIN folders : folders[j].title = folderName => i <= j
    ELSE 0

----------------------------------------------------------------------------
(* Dashboards.  A dashboard document is a body (kind "board") or the       *)
(* envelope GET /api/dashboards/uid/{uid} answers with (kind "wrapper":    *)
(* {"meta": ..., "dashboard": body}).  folderId is the document's          *)
(* top-level "folderId" member, Nil when it has none; panels stands for    *)
(* the rest of the body.                                                   *)

Board(uid, id, title, folderId, panels) ==
    [kind |-> "board", uid |-> uid, id |-> id, title |-> title,
     folderId |-> folderId, panels |-> panels]

Wrapper(meta, board) ==
    [kind |-> "wrapper", folderId |-> Nil, meta |-> meta, dashboard |-> board]

NoBody == [kind |-> "none"]

\* The server's slug of a title.
Slug(title) ==
    CASE title = "Alpha" -> "alpha"
      [] title = "Beta" -> "beta"
      [] OTHER -> "untitled"

\* A dashboard as the server holds it.
Remote(uid, id, title, folderId, panels) ==
    [uid |-> uid, id |-> id, title |-> title, folderId |-> folderId, panels |-> panels]

RemoteA == Remote("u1", 11, "Alpha", 7, "p1")
RemoteB == Remote("u2", 12, "Beta", 0, "p2")
UIDOrder == <<"u1", "u2">>

\* The envelope the server answers GET /api/dashboards/uid/{uid} with.
Envelope(d) ==
    Wrapper([slug |-> Slug(d.title), folderId |-> d.folderId],
            Board(d.uid, d.id, d.title, Nil, d.panels))

\* The hits of GET /api/search?type=dash-db[&folderIds=ID], ID as in the URL.
SearchHits(rem, folderIds) ==
    LET uids == SelectSeq(UIDOrder, LAMBDA u :
                    /\ u \in DOMAIN rem
                    /\ folderIds = "" \/ ToString(rem[u].folderId) = folderIds)
    IN  [i \in 1..Len(uids) |->
            [uid |-> uids[i], title |-> rem[uids[i]].title, type |-> "dash-db"]]

----------------------------------------------------------------------------
(* The local directory tree. *)

FileName(stem, ext) == [stem |-> stem, ext |-> ext]
\* The file names of the model in the order os.ReadDir sorts them by.
NameOrder == << FileName("Alpha", ".json"), FileName("Beta", ".json"),
                FileName("alpha", ".json"), FileName("beta", ".json"),
                FileName("notes", ".txt") >>

\* os.ReadDir / ioutil.ReadDir: the entries sorted by file name.
ReadDir(dir) == SelectSeq(NameOrder, LAMBDA n : n \in DOMAIN dir)

\* filepath.Ext
Ext(name) == name.ext

ListKinds == {"datasources", "folders", "notifications"}

\* The dashboards directory: whether it exists, and its files by name.
DashDir(exists, dirFiles) == [exists |-> exists, files |-> dirFiles]

DirMixed ==
    (FileName("alpha", ".json") :> Malformed)
    @@ (FileName("beta", ".json") :> Board("u2", 12, "Beta", Float64(3), "p2"))

DirSandwich ==
    (FileName("Alpha", ".json") :> Board("u1", 11, "Alpha", Nil, "p1"))
    @@ (FileName("alpha", ".json") :> Malformed)
    @@ (FileName("beta", ".json") :> Board("u2", 12, "Beta", Float64(0), "p2"))
    @@ (FileName("notes", ".txt") :> Malformed)

DashDirs ==
    { DashDir(FALSE, << >>), DashDir(TRUE, << >>),
      DashDir(TRUE, DirMixed), DashDir(TRUE, DirSandwich) }

Lists(ds, fo, no) == [datasources |-> ds, folders |-> fo, notifications |-> no]

ListFiles ==
    { Lists(Absent, Absent, Absent),
      Lists(Array(AltA(MaxLen)), Malformed, Array(AltB(MaxLen - 1))),
      Lists(Malformed, Array(AltB(MaxLen)), Array(AltA(0))),
      Lists(Array(AltB(MaxLen - 1)), Array(AltA(MaxLen)), Malformed) }

----------------------------------------------------------------------------
(* The HTTP exchange. *)

Statuses == {200, 304, 404}

Responses ==
    {[err |-> FALSE, status |-> s] : s \in Statuses} \cup {[err |-> TRUE, status |-> 0]}

\* The body a response carries: the payload asked for on success, else a body
\* that is not the payload (empty, or an error page).
BodyOf(resp, payload) == IF resp.status \in 200..299 THEN payload ELSE Malformed

\* sendRequest ending the process on server errors only.
sendRequestExitsOn5xx(resp) == resp.err \/ resp.status >= 500

\* sendRequest: whether it ends the process (os.Exit(1)) instead of returning.
sendRequestExits(resp) == resp.err \/ resp.status >= 400

\* A call of the SDK client: whether it returns an error.
sdkErr(resp) == resp.err \/ resp.status # 200

\* A request as the log keeps it: the operation that issued it, what was sent, and
\* the response (reply is the response body).
Request(via, method, path, arg, body, resp, reply) ==
    [op |-> Head(queue), via |-> via, method |-> method, path |-> path, arg |-> arg,
     body |-> body, status |-> resp.status, err |-> resp.err,
     reply |-> IF resp.err THEN NoBody ELSE reply]

\* How the program reaches the server for dashboards and the folder lookup.
Via == IF impl = "http" THEN "sendRequest" ELSE "sdk"

\* The JSON text of a folder list.
FoldersJSON(list) ==
    Array([i \in 1..Len(list) |->
            << <<"id", JNum(list[i].id)>>, <<"title", JStr(list[i].title)>> >>])

----------------------------------------------------------------------------
(* The process. *)

Actions ==
    { "pull-dashboards", "pull-datasources", "pull-folders", "pull-notifications",
      "push-dashboards", "push-datasources", "push-folders", "push-notifications",
      "pull", "push" }

pullDataFoldersFirst == <<"pullDashboards", "pullFolders", "pullDatasources", "pullNotificationChannels">>

pullData == <<"pullDashboards", "pullDatasources", "pullFolders", "pullNotificationChannels">>
pushData == <<"pushDashboards", "pushDatasources", "pushFolders", "pushNotificationChannels">>

\* main's switch: the operations the action runs, in order.
Dispatch(a) ==
    CASE a = "pull-dashboards" -> <<"pullDashboards">>
      [] a = "pull-datasources" -> <<"pullDatasources">>
      [] a = "pull-folders" -> <<"pullFolders">>
      [] a = "pull-notifications" -> <<"pullNotificationChannels">>
      [] a = "push-dashboards" -> <<"pushDashboards">>
      [] a = "push-datasources" -> <<"pushDatasources">>
      [] a = "push-folders" -> <<"pushFolders">>
      [] a = "push-notifications" -> <<"pushNotificationChannels">>
      [] a = "pull" -> pullData
      [] a = "push" -> pushData
      [] OTHER -> << >>

\* The zero value of the folder ID: "" in main.go, 0 with the SDK.
NoFolderID == IF impl = "http" THEN Str("") ELSE GoInt(0)

Init ==
    /\ impl \in {"http", "sdk"}
    /\ apiKey = "" /\ baseURL = "" /\ action = "pull" /\ folder = ""
    /\ runs = 0
    /\ pc = "idle"
    /\ queue = << >>
    /\ folderID = NoFolderID
    /\ files = << >> /\ dashboards = << >> /\ records = << >> /\ idx = 1
    /\ requests = << >> /\ writes = << >>
    /\ exitCode = -1
    /\ fs \in {[writable |-> w, dashDir |-> d, lists |-> l] :
                    w \in BOOLEAN, d \in DashDirs, l \in ListFiles}
    /\ remote \in { (("u1" :> RemoteA) @@ ("u2" :> RemoteB)), ("u1" :> RemoteA) }
    /\ origin = remote

\* The actions invoked again on the directory an earlier invocation left: a further
\* invocation is modelled after a dashboards action that exited 0.
Repeated == {"pull-dashboards", "push-dashboards"}

\* os.Exit(1) / log.Fatalf
Fatal == pc' = "exited" /\ exitCode' = 1

\* The current operation returns to main.
Return == pc' = "call" /\ queue' = Tail(queue) /\ exitCode' = exitCode

\* main: flag.Parse, the checks of the configuration, and the switch on the action.
main ==
    /\ \/ pc = "idle"
       \/ pc = "exited" /\ exitCode = 0 /\ action \in Repeated
    /\ runs < MaxRuns
    /\ \E k \in {"", "key"}, u \in {"", "http://grafana"},
          a \in IF runs = 0 THEN Actions \cup {"sync"} ELSE Repeated, f \in FolderNames :
          /\ apiKey' = k /\ baseURL' = u /\ action' = a /\ folder' = f
          /\ IF k = "" \/ u = "" \/ a \notin Actions
             THEN Fatal /\ queue' = << >>
             ELSE pc' = "call" /\ queue' = Dispatch(a) /\ exitCode' = -1
    /\ runs' = runs + 1
    /\ requests' = << >> /\ writes' = << >>
    /\ folderID' = NoFolderID
    /\ files' = << >> /\ dashboards' = << >> /\ records' = << >> /\ idx' = 1
    /\ UNCHANGED <<impl, fs, remote, origin>>

\* main returns: the process ends with exit code 0.
mainReturns ==
    /\ pc = "call" /\ queue = << >>
    /\ pc' = "exited" /\ exitCode' = 0
    /\ UNCHANGED <<config, queue, locals, requests, writes, fs, remote, origin>>

\* getFolderID: the ID of the first folder of the list titled folderName, as the
\* program holds it, or that the lookup ends the process.
\*   main.go 65-86: sendRequest, json.Unmarshal, the scan, Sprintf("%v", id)
\*   part_001 76-91: client.GetAllFolders, the scan, f.ID
getFolderID(resp, list, folderName) ==
    LET body == BodyOf(resp, FoldersJSON(list))
        i == FirstMatch(list, folderName)
    IN  IF impl = "http"
        THEN IF sendRequestExits(resp) \/ body.kind # "array" \/ i = 0
             THEN [fatal |-> TRUE, id |-> Str("")]
             ELSE [fatal |-> FALSE, id |-> Str(SprintfV(Float64(list[i].id)))]
        ELSE IF sdkErr(resp) \/ i = 0
             THEN [fatal |-> TRUE, id |-> GoInt(0)]
             ELSE [fatal |-> FALSE, id |-> GoInt(list[i].id)]

\* The call of getFolderID by pullDashboards or pushDashboards.
getFolderIDCall ==
    /\ pc = "getFolderID"
    /\ \E resp \in Responses, list \in FolderLists :
          LET r == getFolderID(resp, list, folder)
          IN  /\ requests' = Append(requests,
                    Request(Via, "GET", "/api/folders", "", NoBody, resp,
                            BodyOf(resp, FoldersJSON(list))))
              /\ IF r.fatal
                 THEN Fatal /\ folderID' = folderID
                 ELSE /\ folderID' = r.id
                      /\ pc' = IF Head(queue) = "pullDashboards" THEN "search" ELSE "pushLoop"
                      /\ exitCode' = exitCode
    /\ UNCHANGED <<config, queue, files, dashboards, records, idx, writes, fs, remote, origin>>

\* A file write as the log keeps it: the operation that made it, the file, the
\* bytes, whether it succeeded, and the number of requests issued before it.
Write(name, data, ok) ==
    [op |-> Head(queue), name |-> name, data |-> data, ok |-> ok, seq |-> Len(requests')]

\* pullDashboards, up to the call of getFolderID or the search.
pullDashboards ==
    /\ pc = "call" /\ queue # << >> /\ Head(queue) = "pullDashboards"
    /\ pc' = IF folder # "" THEN "getFolderID" ELSE "search"
    /\ folderID' = NoFolderID
    /\ UNCHANGED <<config, queue, files, dashboards, records, idx, requests, writes,
                   exitCode, fs, remote, origin>>

\* os.MkdirAll of the dashboards directory: whether the directory exists after it.
MkdirAll(tree) == tree.dashDir.exists \/ tree.writable

\* The folderIds parameter of the search URL.
FolderIds == IF folder = "" THEN "" ELSE IF impl = "http" THEN folderID.s ELSE ToString(folderID.n)

\* pullDashboards: the search and the creation of the dashboards directory.
\*   main.go 112-121: a body that does not decode ends the operation, the result of
\*     os.MkdirAll is dropped
\*   part_001 122-131: a failed search or os.MkdirAll is log.Fatalf
pullDashboardsSearch ==
    /\ pc = "search"
    /\ \E resp \in Responses :
          LET hits == SearchHits(remote, FolderIds)
              reply == BodyOf(resp, [kind |-> "hits", hits |-> hits])
          IN  /\ requests' = Append(requests,
                    Request(Via, "GET", "/api/search", FolderIds, NoBody, resp, reply))
              /\ IF impl = "http"
                 THEN IF sendRequestExits(resp)
                      THEN Fatal /\ UNCHANGED <<queue, dashboards, idx, fs>>
                      ELSE IF reply.kind # "hits"
                      THEN Return /\ UNCHANGED <<dashboards, idx, fs>>
                      ELSE /\ dashboards' = hits /\ idx' = 1
                           /\ fs' = [fs EXCEPT !.dashDir.exists = MkdirAll(fs)]
                           /\ pc' = "pullLoop"
                           /\ UNCHANGED <<queue, exitCode>>
                 ELSE IF sdkErr(resp)
                      THEN Fatal /\ UNCHANGED <<queue, dashboards, idx, fs>>
                      ELSE IF ~MkdirAll(fs)
                      THEN Fatal /\ UNCHANGED <<queue, dashboards, idx, fs>>
                      ELSE /\ dashboards' = hits /\ idx' = 1
                           /\ fs' = [fs EXCEPT !.dashDir.exists = TRUE]
                           /\ pc' = "pullLoop"
                           /\ UNCHANGED <<queue, exitCode>>
    /\ UNCHANGED <<config, folderID, files, records, writes, remote, origin>>

\* A write that leaves the written file alone in the directory.
SaveDashboardAlone(dir, name, data, ok) ==
    IF ok /\ dir.exists THEN [dir EXCEPT !.files = (name :> data)] ELSE dir

\* saveToFile / os.WriteFile into the dashboards directory.
SaveDashboard(dir, name, data, ok) ==
    IF ok /\ dir.exists THEN [dir EXCEPT !.files = (name :> data) @@ @] ELSE dir

\* json.MarshalIndent of the sdk.Board the SDK decoded, its ID set to 0.
PulledBoard(b) == Board(b.uid, 0, b.title, Nil, b.panels)

\* pullDashboards: one pass of the loop over the search hits.
\*   main.go 123-133: downloadDashboard through sendRequest, the response written as
\*     it came to {title}.json
\*   part_001 134-170: a failed client.GetDashboardByUID or an empty title is logged
\*     and skipped, board.ID = 0, the board written to {meta.Slug}.json
pullDashboardsItem ==
    /\ pc = "pullLoop" /\ idx <= Len(dashboards)
    /\ \E resp \in Responses :
          LET db == dashboards[idx]
              reply == BodyOf(resp, Envelope(remote[db.uid]))
              req == Request(Via, "GET", "/api/dashboards/uid", db.uid, NoBody, resp, reply)
          IN  IF impl = "http"
              THEN /\ requests' = Append(requests, req)
                   /\ IF sendRequestExits(resp)
                      THEN Fatal /\ UNCHANGED <<idx, writes, fs>>
                      ELSE LET name == FileName(db.title, ".json")
                               ok == fs.writable /\ fs.dashDir.exists
                           IN  /\ writes' = Append(writes, Write(name, reply, ok))
                               /\ fs' = [fs EXCEPT !.dashDir = SaveDashboard(@, name, reply, ok)]
                               /\ idx' = idx + 1
                               /\ UNCHANGED <<pc, exitCode>>
              ELSE IF db.type # "dash-db"
              THEN idx' = idx + 1 /\ UNCHANGED <<pc, exitCode, requests, writes, fs>>
              ELSE /\ requests' = Append(requests, req)
                   /\ idx' = idx + 1
                   /\ UNCHANGED <<pc, exitCode>>
                   /\ IF sdkErr(resp) \/ reply.dashboard.title = ""
                      THEN UNCHANGED <<writes, fs>>
                      ELSE LET name == FileName(reply.meta.slug, ".json")
                               data == PulledBoard(reply.dashboard)
                               ok == fs.writable /\ fs.dashDir.exists
                           IN  /\ writes' = Append(writes, Write(name, data, ok))
                               /\ fs' = [fs EXCEPT !.dashDir = SaveDashboard(@, name, data, ok)]
    /\ UNCHANGED <<config, queue, folderID, files, dashboards, records, remote, origin>>

\* pushDashboards, up to the call of getFolderID or the loop: the listing of the
\* dashboards directory.
\*   main.go 185-191: the error of ioutil.ReadDir is dropped
\*   part_001 225-236: a failed os.ReadDir is log.Fatalf
pushDashboards ==
    /\ pc = "call" /\ queue # << >> /\ Head(queue) = "pushDashboards"
    /\ folderID' = NoFolderID
    /\ IF impl = "sdk" /\ ~fs.dashDir.exists
       THEN Fatal /\ UNCHANGED <<files, idx>>
       ELSE /\ files' = IF fs.dashDir.exists THEN ReadDir(fs.dashDir.files) ELSE << >>
            /\ idx' = 1
            /\ pc' = IF folder # "" THEN "getFolderID" ELSE "pushLoop"
            /\ exitCode' = exitCode
    /\ UNCHANGED <<config, queue, dashboards, records, requests, writes, fs, remote, origin>>

\* json.Unmarshal of a dashboard file into sdk.Board: the members the struct has
\* no field for are dropped.
UnmarshalBoard(doc) ==
    IF doc.kind = "board"
    THEN Board(doc.uid, doc.id, doc.title, Nil, doc.panels)
    ELSE Board("", 0, "", Nil, "")

\* main.go: the dashboard object of the payload, the decoded file with the target
\* folder put into it when it names none.
WithFolder(doc, id) ==
    IF id # Str("") /\ (doc.folderId = Nil \/ doc.folderId = GoInt(0))
    THEN [doc EXCEPT !.folderId = id]
    ELSE doc

\* The body of POST /api/dashboards/db for a decoded dashboard file.
\*   main.go 216-220: {dashboard, overwrite}
\*   part_001 255-262: client.SetDashboard(dashboard, {FolderID, Overwrite})
UpsertPayload(doc, id) ==
    IF impl = "http"
    THEN [kind |-> "upsert", dashboard |-> WithFolder(doc, id), overwrite |-> TRUE,
          folderId |-> Nil]
    ELSE [kind |-> "upsert", dashboard |-> UnmarshalBoard(doc), overwrite |-> TRUE,
          folderId |-> id]

\* The server's dashboards after an upsert it answered with resp.
Upsert(rem, payload, resp) ==
    LET d == payload.dashboard
    IN  IF ~resp.err /\ resp.status \in 200..299 /\ d.kind = "board" /\ d.uid \in {"u1", "u2"}
        THEN (d.uid :> Remote(d.uid,
                              IF d.uid \in DOMAIN rem THEN rem[d.uid].id ELSE 20 + d.id,
                              d.title,
                              IF payload.folderId.type = "int" THEN payload.folderId.n ELSE 0,
                              d.panels)) @@ rem
        ELSE rem

\* pushDashboards: one pass of the loop over the directory listing.
\*   main.go 193-226: the upsert goes through sendRequest
\*   part_001 239-270: a failed client.SetDashboard is logged and skipped
pushDashboardsItem ==
    /\ pc = "pushLoop" /\ idx <= Len(files)
    /\ LET name == files[idx]
           doc == fs.dashDir.files[name]
       IN  IF Ext(name) # ".json" \/ doc.kind \in {"unreadable", "malformed"}
           THEN idx' = idx + 1 /\ UNCHANGED <<pc, exitCode, requests, remote>>
           ELSE \E resp \in Responses :
                  LET payload == UpsertPayload(doc, folderID)
                  IN  /\ requests' = Append(requests,
                            Request(Via, "POST", "/api/dashboards/db", name.stem, payload,
                                    resp, BodyOf(resp, [kind |-> "status"])))
                      /\ remote' = Upsert(remote, payload, resp)
                      /\ IF impl = "http" /\ sendRequestExits(resp)
                         THEN Fatal /\ idx' = idx
                         ELSE idx' = idx + 1 /\ UNCHANGED <<pc, exitCode>>
    /\ UNCHANGED <<config, queue, folderID, files, dashboards, records, writes, fs, origin>>

----------------------------------------------------------------------------
(* Datasources, folders and notification channels. *)

Path(kind) ==
    CASE kind = "datasources" -> "/api/datasources"
      [] kind = "folders" -> "/api/folders"
      [] kind = "notifications" -> "/api/alert-notifications"

\* The bodies GET of a list endpoint may answer with.
ListBodies(kind) ==
    IF kind = "folders" THEN {FoldersJSON(l) : l \in FolderLists}
    ELSE {Array(AltA(MaxLen)), Array(AltB(1))}

\* pullDatasources / pullFolders / pullNotificationChannels: one GET, the response
\* body written as it came.
pullList(kind, op) ==
    /\ pc = "call" /\ queue # << >> /\ Head(queue) = op
    /\ \E resp \in Responses, payload \in ListBodies(kind) :
          LET data == BodyOf(resp, payload)
              writeOk == fs.writable
          IN  /\ requests' = Append(requests,
                    Request("sendRequest", "GET", Path(kind), "", NoBody, resp, data))
              /\ IF sendRequestExits(resp)
                 THEN Fatal /\ UNCHANGED <<queue, writes, fs>>
                 ELSE /\ Return
                      /\ writes' = Append(writes, Write(FileName(kind, ".json"), data, writeOk))
                      /\ fs' = IF writeOk THEN [fs EXCEPT !.lists[kind] = data] ELSE fs
    /\ UNCHANGED <<config, locals, remote, origin>>

pullDatasources == pullList("datasources", "pullDatasources")
pullFolders == pullList("folders", "pullFolders")
pullNotificationChannels == pullList("notifications", "pullNotificationChannels")

\* The operation with a decode failure ending the process.
pushListFatalOnDecode(kind, op) ==
    /\ pc = "call" /\ queue # << >> /\ Head(queue) = op
    /\ LET content == fs.lists[kind]
           decoded == UnmarshalList(content)
       IN  IF content.kind = "absent"
           THEN Return /\ UNCHANGED <<records, idx>>
           ELSE IF decoded.err
           THEN Fatal /\ UNCHANGED <<queue, records, idx>>
           ELSE /\ records' = decoded.value /\ idx' = 1
                /\ pc' = "postLoop"
                /\ UNCHANGED <<queue, exitCode>>
    /\ UNCHANGED <<config, folderID, files, dashboards, requests, writes, fs, remote, origin>>

\* pushDatasources / pushFolders / pushNotificationChannels, up to the loop: the
\* list file read and decoded.
pushList(kind, op) ==
    /\ pc = "call" /\ queue # << >> /\ Head(queue) = op
    /\ LET content == fs.lists[kind]
           decoded == UnmarshalList(content)
       IN  IF content.kind = "absent" \/ decoded.err
           THEN Return /\ UNCHANGED <<records, idx>>
           ELSE /\ records' = decoded.value /\ idx' = 1
                /\ pc' = "postLoop"
                /\ UNCHANGED <<queue, exitCode>>
    /\ UNCHANGED <<config, folderID, files, dashboards, requests, writes, fs, remote, origin>>

pushDatasources == pushList("datasources", "pushDatasources")
pushFolders == pushList("folders", "pushFolders")
pushNotificationChannels == pushList("notifications", "pushNotificationChannels")

\* The list kind of a push operation.
KindOf(op) ==
    CASE op = "pushDatasources" -> "datasources"
      [] op = "pushFolders" -> "folders"
      [] op = "pushNotificationChannels" -> "notifications"

\* pushDatasources / pushFolders / pushNotificationChannels: one pass of the loop,
\* the record encoded and posted.
pushListItem ==
    /\ pc = "postLoop" /\ idx <= Len(records)
    /\ \E resp \in Responses :
          /\ requests' = Append(requests,
                Request("sendRequest", "POST", Path(KindOf(Head(queue))), "",
                        [kind |-> "object", members |-> MarshalMap(records[idx])],
                        resp, BodyOf(resp, [kind |-> "status"])))
          /\ IF sendRequestExits(resp)
             THEN Fatal /\ idx' = idx
             ELSE idx' = idx + 1 /\ UNCHANGED <<pc, exitCode>>
    /\ UNCHANGED <<config, queue, folderID, files, dashboards, records, writes, fs,
                   remote, origin>>

\* The loop of the current operation is over: the operation returns.
loopEnds ==
    /\ \/ pc = "pullLoop" /\ idx > Len(dashboards)
       \/ pc = "pushLoop" /\ idx > Len(files)
       \/ pc = "postLoop" /\ idx > Len(records)
    /\ Return
    /\ UNCHANGED <<config, locals, requests, writes, fs, remote, origin>>

Next ==
    \/ main
    \/ mainReturns
    \/ getFolderIDCall
    \/ pullDashboards
    \/ pullDashboardsSearch
    \/ pullDashboardsItem
    \/ pullDatasources
    \/ pullFolders
    \/ pullNotificationChannels
    \/ pushDashboards
    \/ pushDashboardsItem
    \/ pushDatasources
    \/ pushFolders
    \/ pushNotificationChannels
    \/ pushListItem
    \/ loopEnds

Spec == Init /\ [][Next]_vars

----------------------------------------------------------------------------
(* What the claims speak of. *)

Range(seq) == {seq[i] : i \in DOMAIN seq}

\* The operation has begun in this invocation.
Started(op) ==
    /\ pc # "idle" /\ apiKey # "" /\ baseURL # ""
    /\ op \in Range(Dispatch(action))
    /\ \/ op \notin Range(queue)
       \/ Head(queue) = op /\ pc # "call"

\* The operation has begun and is over: it returned, or the process ended in it.
Over(op) == Started(op) /\ (pc = "exited" \/ op \notin Range(queue))

\* The position of an operation in the order dashboards, datasources, folders,
\* notifications.
Rank(op) ==
    CASE op \in {"pullDashboards", "pushDashboards"} -> 1
      [] op \in {"pullDatasources", "pushDatasources"} -> 2
      [] op \in {"pullFolders", "pushFolders"} -> 3
      [] op \in {"pullNotificationChannels", "pushNotificationChannels"} -> 4

\* A request is the folder lookup of getFolderID.
IsLookup(r) ==
    r.method = "GET" /\ r.path = "/api/folders" /\ r.op \in {"pullDashboards", "pushDashboards"}

\* The request got no usable answer: the transport failed or the status is an error.
Failed(r) == r.err \/ r.status >= 400

\* A folder ID as text, whichever type the program holds it in.
IdText(v) ==
    CASE v.type = "int" -> ToString(v.n)
      [] v.type = "string" -> v.s
      [] OTHER -> ""

\* The title and the ID of the i-th folder of a folder list's JSON text.
TitleAt(reply, i) == reply.elems[i][2][2].s
IdAt(reply, i) == reply.elems[i][1][2].n

\* C1: getFolderID returns the ID of the first folder, in list order, whose title
\* equals the name; when no folder of the returned list has that title the process
\* ends with exit code 1 at that request, no ID returned and no later request issued.
C1_FirstMatchOrFatal ==
    \A i \in DOMAIN requests :
        (IsLookup(requests[i]) /\ requests[i].reply.kind = "array") =>
            LET reply == requests[i].reply
                hits == {j \in DOMAIN reply.elems : TitleAt(reply, j) = folder}
            IN  IF hits # {}
                THEN /\ \E j \in hits :
                         /\ \A k \in hits : j <= k
                         /\ IdText(folderID) = ToString(IdAt(reply, j))
                     /\ ~(i = Len(requests) /\ pc = "exited" /\ exitCode = 1)
                ELSE /\ i = Len(requests)
                     /\ pc = "exited" /\ exitCode = 1
                     /\ folderID = NoFolderID

\* C1 witness: a lookup answered with two folders of the wanted title has returned
\* the first one's ID and the caller went on.
C1_Witness ==
    /\ pc \in {"search", "pushLoop"}
    /\ requests # << >>
    /\ IsLookup(requests[1])
    /\ requests[1].reply = FoldersJSON(<< Folder(7, "Eng"), Folder(9, "Eng") >>)
    /\ folder = "Eng"
    /\ IdText(folderID) = "7"

\* Every request and file write of this invocation so far is of an operation no
\* later in the order than op.
NoneLaterThan(op) ==
    /\ \A e \in Range(requests) : Rank(e.op) <= Rank(op)
    /\ \A e \in Range(writes) : Rank(e.op) <= Rank(op)

\* C6: Pull All and Push All run dashboards, datasources, folders, notifications in
\* that order: every request and file write comes after all those of the earlier
\* kinds and before all those of the later kinds; a fatal failure leaves the files
\* and the server as the earlier kinds made them, and after it nothing is requested
\* or written.
C6_FixedOrderNoRollback ==
    /\ [][(runs' = runs /\ requests' # requests) =>
            NoneLaterThan(requests'[Len(requests')].op)]_vars
    /\ [][(runs' = runs /\ writes' # writes) =>
            NoneLaterThan(writes'[Len(writes')].op)]_vars
    /\ [][(runs' = runs /\ queue # << >> /\ queue' # << >> /\ Head(queue') # Head(queue)) =>
            Rank(Head(queue')) = Rank(Head(queue)) + 1]_vars
    /\ [][(runs' = runs /\ exitCode # 1 /\ exitCode' = 1) =>
            (fs' = fs /\ writes' = writes /\ queue' = queue)]_vars
    /\ [][(runs' = runs /\ exitCode = 1) =>
            UNCHANGED <<requests, writes, fs, remote>>]_vars

\* C6 witness: Pull All has ended fatally in the folders operation, after the
\* datasources file was written.
C6_Witness ==
    /\ action = "pull" /\ pc = "exited" /\ exitCode = 1
    /\ queue # << >> /\ Head(queue) = "pullFolders"
    /\ \E w \in Range(writes) : w.op = "pullDatasources" /\ w.ok
    /\ fs.lists["datasources"].kind = "array"

\* The fields of a JSON object text: each key with the value of its last member.
FieldsOf(members) ==
    {<<members[i][1], members[i][2]>> : i \in
        {i \in DOMAIN members : \A j \in DOMAIN members : members[j][1] = members[i][1] => j <= i}}

PushListOps == {"pushDatasources", "pushFolders", "pushNotificationChannels"}

\* The requests an operation issued, in order.
RequestsOf(op) == SelectSeq(requests, LAMBDA r : r.op = op)

\* The i-th request of the operation is the POST of the i-th element of the array.
PostsElement(op, elems, i) ==
    LET r == RequestsOf(op)[i]
    IN  /\ r.method = "POST" /\ r.path = Path(KindOf(op))
        /\ r.body.kind = "object"
        /\ FieldsOf(r.body.members) = FieldsOf(elems[i])

\* C3 as stated: a push of a list file holding an array of N objects issues exactly
\* N POSTs to the kind's create endpoint, the i-th with the fields of the i-th
\* element, and no other request.
C3_ExactlyNPosts ==
    \A op \in PushListOps :
        (Over(op) /\ fs.lists[KindOf(op)].kind = "array") =>
            LET elems == fs.lists[KindOf(op)].elems
            IN  /\ Len(RequestsOf(op)) = Len(elems)
                /\ \A i \in DOMAIN elems : PostsElement(op, elems, i)

\* C3 amended: the operation issues the POSTs of the array elements in array order,
\* one per element with the element's fields, and nothing else; it issues all N
\* unless a POST fails (no response, or a status of 400 or more), and then that POST
\* is its last and the process has ended with exit code 1.
C3_PostsInOrderUntilFailure ==
    \A op \in PushListOps :
        (Started(op) /\ fs.lists[KindOf(op)].kind = "array") =>
            LET elems == fs.lists[KindOf(op)].elems
                posts == RequestsOf(op)
            IN  /\ Len(posts) <= Len(elems)
                /\ \A i \in DOMAIN posts : PostsElement(op, elems, i)
                /\ \A i \in DOMAIN posts :
                       Failed(posts[i]) => (i = Len(posts) /\ pc = "exited" /\ exitCode = 1)
                /\ Over(op) =>
                       \/ Len(posts) = Len(elems)
                       \/ posts # << >> /\ Failed(posts[Len(posts)])

\* C3 witness: Push Datasources of the two-object array, the second with a repeated
\* key, is over with both POSTs issued.
C3_Witness ==
    /\ action = "push-datasources" /\ pc = "exited" /\ exitCode = 0
    /\ fs.lists["datasources"] = Array(<<ObjA, ObjB>>)
    /\ Len(requests) = 2
    /\ requests[2].body.members = << <<"id", JNum(2)>>, <<"name", JStr("c")>> >>

\* The requests sendRequest sent and got a response to.
Answered(i) == requests[i].via = "sendRequest" /\ ~requests[i].err

C10_DecodeFailureFatal ==
    \A op \in PushListOps :
        (Started(op) /\ fs.lists[KindOf(op)].kind = "malformed") =>
            /\ pc = "exited" /\ exitCode = 1
            /\ RequestsOf(op) = << >>
            /\ \A r \in Range(requests) : Rank(r.op) <= Rank(op)

\* C10 amended: a list file that does not decode ends only the operation of its
\* kind: no POST is issued for that kind, the operation returns, the operations of
\* the later kinds are run, and the process ends with exit code 0 unless a request
\* of a later kind fails.
C10_DecodeFailureSkipsKind ==
    \A op \in PushListOps :
        (Started(op) /\ fs.lists[KindOf(op)].kind = "malformed") =>
            /\ RequestsOf(op) = << >>
            /\ op \notin Range(queue)
            /\ pc = "exited" =>
                  \/ exitCode = 0 /\ queue = << >>
                  \/ /\ exitCode = 1 /\ requests # << >>
                     /\ Failed(requests[Len(requests)])
                     /\ Rank(requests[Len(requests)].op) > Rank(op)

\* C10 witness: Push All over a folders file that does not decode has posted a
\* notification channel and ended with exit code 0.
C10_Witness ==
    /\ action = "push" /\ pc = "exited" /\ exitCode = 0
    /\ fs.lists["folders"].kind = "malformed"
    /\ \E r \in Range(requests) : r.op = "pushNotificationChannels" /\ r.method = "POST"

\* The positions in the log of the upserts and of the folder lookups of Push
\* Dashboards, and of the requests for one dashboard.
Upserts == {i \in DOMAIN requests : requests[i].path = "/api/dashboards/db"}
PushLookups == {i \in DOMAIN requests : IsLookup(requests[i]) /\ requests[i].op = "pushDashboards"}
PerDashboard ==
    {i \in DOMAIN requests : requests[i].path \in {"/api/dashboards/uid", "/api/dashboards/db"}}

\* The process ended with exit code 1 at the i-th request.
EndedAt(i) == i = Len(requests) /\ pc = "exited" /\ exitCode = 1

\* The .json files of the dashboards directory that decode, in listing order.
ValidFiles ==
    SelectSeq(ReadDir(fs.dashDir.files), LAMBDA n :
        Ext(n) = ".json" /\ fs.dashDir.files[n].kind \notin {"malformed", "unreadable"})

\* C2: Push Dashboards over a directory of valid and malformed .json files, once the
\* target folder (if any) is resolved, uploads every valid file with one upsert, in
\* listing order, issues no upsert for a malformed file wherever it stands, and the
\* action completes with exit code 0.
C2_ValidUploadedMalformedSkipped ==
    (/\ Over("pushDashboards") /\ fs.dashDir.exists
     /\ ~\E i \in PushLookups : EndedAt(i)) =>
        LET ups == SelectSeq(requests, LAMBDA r : r.path = "/api/dashboards/db")
        IN  /\ Len(ups) = Len(ValidFiles)
            /\ \A i \in DOMAIN ups : ups[i].arg = ValidFiles[i].stem
            /\ (action = "push-dashboards" /\ pc = "exited") => exitCode = 0

\* C4: pulled and pushed back, a dashboard of the server is there under the same UID
\* with the body it had, the numeric ID apart; the dashboard object of an upsert is
\* the dashboard body itself, not an envelope around it.
C4_RoundTripKeepsBody ==
    \A i \in Upserts :
        LET d == requests[i].body.dashboard
        IN  /\ d.kind = "board"
            /\ (~Failed(requests[i]) /\ d.uid \in DOMAIN origin) =>
                  /\ d.uid \in DOMAIN remote
                  /\ remote[d.uid].uid = d.uid
                  /\ remote[d.uid].title = origin[d.uid].title
                  /\ remote[d.uid].panels = origin[d.uid].panels

\* C5: every file Pull Dashboards writes is dashboards/{slug}.json of the dashboard
\* just fetched and holds that dashboard's body with the numeric ID 0; with -folder
\* set the search is restricted to the resolved folder ID.
C5_PulledFileSlugNamedZeroID ==
    /\ \A w \in Range(writes) :
          w.op = "pullDashboards" =>
              LET r == requests[w.seq]
              IN  /\ r.path = "/api/dashboards/uid"
                  /\ r.reply.kind = "wrapper"
                  /\ w.name = FileName(r.reply.meta.slug, ".json")
                  /\ w.data.kind = "board"
                  /\ w.data.id = 0
                  /\ w.data = [r.reply.dashboard EXCEPT !.id = 0]
    /\ \A r \in Range(requests) :
          (r.path = "/api/search" /\ folder # "") =>
              (r.arg = IdText(folderID) /\ folderID # NoFolderID)

\* C7: a failed fetch of one dashboard's body in Pull Dashboards, or a failed upload
\* of one file in Push Dashboards, never ends the process: it is not the request
\* the process exits with code 1 at.
C7_PerDashboardFailureNotFatal ==
    \A i \in PerDashboard :
        (requests[i].err \/ requests[i].status \notin 200..299) => ~EndedAt(i)

\* C8: Push Dashboards with -folder set resolves the folder exactly once, before
\* the first upsert, and every upsert carries overwrite = true and the resolved
\* folder ID as the payload's folderId, whatever folder the file names; with -folder
\* empty no lookup is made.
C8_UpsertCarriesResolvedFolder ==
    Started("pushDashboards") =>
        IF folder = ""
        THEN PushLookups = {}
        ELSE /\ Cardinality(PushLookups) <= 1
             /\ Upserts # {} => Cardinality(PushLookups) = 1
             /\ \A u \in Upserts :
                   /\ \A l \in PushLookups : l < u
                   /\ requests[u].body.overwrite = TRUE
                   /\ folderID # NoFolderID
                   /\ IdText(requests[u].body.folderId) = IdText(folderID)

\* The actions of each direction.
PullActions == {"pull", "pull-dashboards", "pull-datasources", "pull-folders", "pull-notifications"}
PushActions == {"push", "push-dashboards", "push-datasources", "push-folders", "push-notifications"}

\* The methods of the requests issued so far.
Methods(log) == {log[i].method : i \in DOMAIN log}

\* The files of a directory tree: the files of the dashboards directory and the
\* list files that exist.
FilesOf(tree) ==
    [dashboards |-> DOMAIN tree.dashDir.files,
     lists |-> {k \in ListKinds : tree.lists[k].kind # "absent"}]

\* Every directory and file of tree is there in after.
Keeps(tree, after) ==
    /\ tree.dashDir.exists => after.dashDir.exists
    /\ FilesOf(tree).dashboards \subseteq FilesOf(after).dashboards
    /\ FilesOf(tree).lists \subseteq FilesOf(after).lists

\* C11: no step removes a local file or a dashboard of the server, and only GET
\* and POST requests are issued; a step of a pull action issues only GET requests
\* and leaves the server's state as it was; a step of a push action leaves the
\* local directory tree as it was.
C11_FrameOfEachDirection ==
    [][ /\ Keeps(fs, fs')
        /\ DOMAIN remote \subseteq DOMAIN remote'
        /\ Methods(requests') \subseteq {"GET", "POST"}
        /\ action' \in PullActions => Methods(requests') \subseteq {"GET"} /\ remote' = remote
        /\ action' \in PushActions => fs' = fs ]_vars

\* A push of the dashboards has changed the server, after a pull by an earlier
\* invocation wrote a dashboard over a file of the directory: every file the
\* directory had is still there, and so is every dashboard of the server.
C11_Witness ==
    /\ runs = 2 /\ action = "push-dashboards" /\ pc = "exited" /\ exitCode = 0
    /\ Methods(requests) = {"POST"}
    /\ remote # origin
    /\ DOMAIN DirSandwich \subseteq DOMAIN fs.dashDir.files
    /\ \E name \in DOMAIN fs.dashDir.files :
          /\ name \in DOMAIN DirSandwich
          /\ fs.dashDir.files[name].kind = "board"
          /\ fs.dashDir.files[name].id = 0

====
